---- MODULE Spec2Model ----
(***************************************************************************)
(* Crypto Tracker: the root component App (instrument list, 60 s refresh,  *)
(* search filter, selection) and the CryptoModal component (historical     *)
(* chart fetch keyed by coin id and period, hover state).                  *)
(*                                                                         *)
(* Spec      : App.jsx        (MarketDataStore, FilterEngine, selection)   *)
(* SpecChart : CryptoModal.jsx (ChartDataStore, InteractionTracker)        *)
(***************************************************************************)
EXTENDS Integers, Sequences, FiniteSets, TLC

VARIABLES
    \* ---- App.jsx ----
    cryptos,        \* useState([])   all coins of the last successful fetch
    filtered,       \* useState([])   coins shown by CryptoList
    search,         \* useState('')   search text (a sequence of characters)
    selected,       \* useState(null) the coin object the user clicked
    loading,        \* useState(true)
    error,          \* useState(null)
    mounted,        \* App is mounted (its state setters still act)
    interval,       \* the setInterval(fetchCryptos, 60000) timer is scheduled
    fetches,        \* calls of fetchCryptos suspended at an await
    issued,         \* number of fetchCryptos calls made so far
    effectPending,  \* the [search, cryptos] effect is scheduled, not yet run
    \* ---- CryptoModal.jsx ----
    coin,           \* prop coin (NullCoin while no modal is mounted)
    chartData,      \* useState([])
    loadingChart,   \* useState(true)
    days,           \* useState(7)
    hovered,        \* useState(null)
    chartFetches,   \* calls of fetchChartData suspended at an await
    chartIssued,    \* number of fetchChartData calls made so far
    frame           \* what renderChart() returned for the committed render

appVars   == <<cryptos, filtered, search, selected, loading, error, mounted,
               interval, fetches, issued, effectPending>>
chartVars == <<coin, chartData, loadingChart, days, hovered, chartFetches,
               chartIssued, frame>>
vars      == <<cryptos, filtered, search, selected, loading, error, mounted,
               interval, fetches, issued, effectPending,
               coin, chartData, loadingChart, days, hovered, chartFetches,
               chartIssued, frame>>

----------------------------------------------------------------------------
(* Bounds *)

\* fetchCryptos calls explored per run (mount + timer ticks + retries)
MaxFetches == 3
\* fetchChartData calls explored per run
MaxChartFetches == 3
\* longest series drawn from all price combinations (a flat 7-sample series
\* is added to them)
MaxSamples == 3
\* longest instrument list given to the search filter
MaxListLen == 3

----------------------------------------------------------------------------
(* Values *)

Null == "null"

ErrorMessage == "Failed to load data. Please try again."

\* A coin record of the /coins/markets payload (the fields the app reads).
MkCoin(id, name, symbol, price, rank) ==
    [id |-> id, name |-> name, symbol |-> symbol,
     current_price |-> price, market_cap_rank |-> rank]

\* selected = null
NullCoin == MkCoin("", <<>>, <<>>, 0, 0)

Btc1 == MkCoin("bitcoin",  <<"B", "i">>, <<"b", "t">>, 100, 1)
Eth1 == MkCoin("ethereum", <<"E", "t">>, <<"e", "t">>, 10, 2)
Btc2 == MkCoin("bitcoin",  <<"B", "i">>, <<"b", "t">>, 90, 2)
Eth2 == MkCoin("ethereum", <<"E", "t">>, <<"e", "t">>, 95, 1)

\* Payloads the upstream may answer with (ordered by market cap, descending).
Snapshots == { <<Btc1, Eth1>>, <<Eth2, Btc2>>, <<Btc2>> }

\* Texts the user may have in the search bar.
Terms == { <<>>, <<"B">>, <<"e", "T">> }

----------------------------------------------------------------------------
(* FilterEngine: App.jsx search filter effect *)

\* String.prototype.toLowerCase on one character
LowerChar(c) ==
    CASE c = "B" -> "b"
      [] c = "E" -> "e"
      [] c = "T" -> "t"
      [] c = "I" -> "i"
      [] OTHER   -> c

toLowerCase(s) == [i \in 1..Len(s) |-> LowerChar(s[i])]

\* String.prototype.includes
includes(s, t) ==
    \E k \in 0..(Len(s) - Len(t)) :
        \A j \in 1..Len(t) : s[k + j] = t[j]

matches(c, term) ==
    \/ includes(toLowerCase(c.name), term)
    \/ includes(toLowerCase(c.symbol), term)

\* Variant: the search text is compared as typed (no search.toLowerCase()).
filterCaseSensitive(list, text) ==
    SelectSeq(list, LAMBDA c : matches(c, text))

\* cryptos.filter(coin => name includes term || symbol includes term)
filter(list, text) ==
    LET term == toLowerCase(text)
    IN  SelectSeq(list, LAMBDA c : matches(c, term))

Range(s) == { s[i] : i \in 1..Len(s) }

----------------------------------------------------------------------------
(* App render *)

\* {loading && <div className="status-message">}
LoadingRendered == mounted /\ loading

\* {error && <div className="status-message error"> ... TRY AGAIN}
ErrorRendered == mounted /\ error # Null

\* Variant: the list is shown whenever loading is over, error or not.
ListRenderedDespiteError == mounted /\ ~loading

\* {!loading && !error && <CryptoList cryptos={filtered} .../>}
ListRendered == mounted /\ ~loading /\ error = Null

\* {selected && <CryptoModal coin={selected} .../>}
ModalRendered == mounted /\ selected # NullCoin

----------------------------------------------------------------------------
(* MarketDataStore: App.jsx fetchCryptos *)

\* Variant: a refresh does not clear the previous error (no setError(null)).
fetchCryptosKeepsError(src) ==
    /\ issued < MaxFetches
    /\ issued' = issued + 1
    /\ fetches' = fetches \cup
          { [id |-> issued + 1, src |-> src, phase |-> "fetch"] }
    /\ UNCHANGED <<cryptos, filtered, search, selected, loading, error,
                   mounted, interval, effectPending>>

\* Variant: every refresh goes back to the loading state (setLoading(true)).
fetchCryptosSetsLoading(src) ==
    /\ issued < MaxFetches
    /\ error' = Null
    /\ loading' = TRUE
    /\ issued' = issued + 1
    /\ fetches' = fetches \cup
          { [id |-> issued + 1, src |-> src, phase |-> "fetch"] }
    /\ UNCHANGED <<cryptos, filtered, search, selected, mounted, interval,
                   effectPending>>

\* fetchCryptos up to its first await: setError(null), then fetch(...) is sent
fetchCryptos(src) ==
    /\ issued < MaxFetches
    /\ error' = Null
    /\ issued' = issued + 1
    /\ fetches' = fetches \cup
          { [id |-> issued + 1, src |-> src, phase |-> "fetch"] }
    /\ UNCHANGED <<cryptos, filtered, search, selected, loading, mounted,
                   interval, effectPending>>

\* Variant: a failure also empties the list (setCryptos([]), setFiltered([])).
CatchClearsList(r) ==
    /\ fetches' = fetches \ {r}
    /\ IF mounted
         THEN /\ error' = ErrorMessage
              /\ loading' = FALSE
              /\ cryptos' = <<>>
              /\ filtered' = <<>>
         ELSE UNCHANGED <<error, loading, cryptos, filtered>>
    /\ UNCHANGED <<search, selected, mounted, interval, issued, effectPending>>

\* catch (err): setError(message); setLoading(false)
Catch(r) ==
    /\ fetches' = fetches \ {r}
    /\ IF mounted
         THEN /\ error' = ErrorMessage
              /\ loading' = FALSE
         ELSE UNCHANGED <<error, loading>>
    /\ UNCHANGED <<cryptos, filtered, search, selected, mounted, interval,
                   issued, effectPending>>

\* await fetch(...) resolves with a response; !response.ok throws
FetchResolves(r, ok) ==
    /\ r \in fetches
    /\ r.phase = "fetch"
    /\ ~effectPending
    /\ IF ok
         THEN /\ fetches' = (fetches \ {r}) \cup {[r EXCEPT !.phase = "json"]}
              /\ UNCHANGED <<cryptos, filtered, search, selected, loading,
                             error, mounted, interval, issued, effectPending>>
         ELSE Catch(r)
    /\ UNCHANGED chartVars

\* await fetch(...) rejects (transport error)
FetchRejects(r) ==
    /\ r \in fetches
    /\ r.phase = "fetch"
    /\ ~effectPending
    /\ Catch(r)
    /\ UNCHANGED chartVars

\* await response.json() resolves: setCryptos, setFiltered, setLoading(false)
JsonResolves(r, data) ==
    /\ r \in fetches
    /\ r.phase = "json"
    /\ ~effectPending
    /\ fetches' = fetches \ {r}
    /\ IF mounted
         THEN /\ cryptos' = data
              /\ filtered' = data
              /\ loading' = FALSE
              /\ effectPending' = TRUE   \* cryptos is a new array
         ELSE UNCHANGED <<cryptos, filtered, loading, effectPending>>
    /\ UNCHANGED <<search, selected, error, mounted, interval, issued>>
    /\ UNCHANGED chartVars

\* await response.json() rejects (the body is not JSON)
JsonRejects(r) ==
    /\ r \in fetches
    /\ r.phase = "json"
    /\ ~effectPending
    /\ Catch(r)
    /\ UNCHANGED chartVars

\* setInterval(fetchCryptos, 60000) fires
TimerTick ==
    /\ interval
    /\ ~effectPending
    /\ fetchCryptos("timer")
    /\ UNCHANGED chartVars

\* <button onClick={fetchCryptos}>TRY AGAIN</button>
Retry ==
    /\ ErrorRendered
    /\ ~effectPending
    /\ fetchCryptos("retry")
    /\ UNCHANGED chartVars

\* Variant: the effect returns no cleanup, the interval stays scheduled.
UnmountKeepsInterval ==
    /\ mounted
    /\ ~effectPending
    /\ mounted' = FALSE
    /\ UNCHANGED <<cryptos, filtered, search, selected, loading, error,
                   interval, fetches, issued, effectPending>>
    /\ UNCHANGED chartVars

\* cleanup of the mount effect: clearInterval(interval)
Unmount ==
    /\ mounted
    /\ ~effectPending
    /\ mounted' = FALSE
    /\ interval' = FALSE
    /\ UNCHANGED <<cryptos, filtered, search, selected, loading, error,
                   fetches, issued, effectPending>>
    /\ UNCHANGED chartVars

\* <SearchBar value={search} onChange={setSearch} />
SetSearch(t) ==
    /\ mounted
    /\ ~effectPending
    /\ t # search
    /\ search' = t
    /\ effectPending' = TRUE
    /\ UNCHANGED <<cryptos, filtered, selected, loading, error, mounted,
                   interval, fetches, issued>>
    /\ UNCHANGED chartVars

\* useEffect(() => { ... setFiltered(result) }, [search, cryptos])
FilterEffect ==
    /\ effectPending
    /\ filtered' = filter(cryptos, search)
    /\ effectPending' = FALSE
    /\ UNCHANGED <<cryptos, search, selected, loading, error, mounted,
                   interval, fetches, issued>>
    /\ UNCHANGED chartVars

\* CryptoCard onClick / Enter key: onSelect(coin) = setSelected(coin)
SelectCoin(c) ==
    /\ ListRendered
    /\ ~effectPending
    /\ c \in Range(filtered)
    /\ c # selected
    /\ selected' = c
    /\ UNCHANGED <<cryptos, filtered, search, loading, error, mounted,
                   interval, fetches, issued, effectPending>>
    /\ UNCHANGED chartVars

\* onClose={() => setSelected(null)}
CloseModal ==
    /\ ModalRendered
    /\ ~effectPending
    /\ selected' = NullCoin
    /\ UNCHANGED <<cryptos, filtered, search, loading, error, mounted,
                   interval, fetches, issued, effectPending>>
    /\ UNCHANGED chartVars


----------------------------------------------------------------------------
(* Numbers: JavaScript numbers as exact fractions [n, d]; d = 0 encodes     *)
(* NaN (n = 0), Infinity (n = 1) and -Infinity (n = -1).                    *)

Abs(a) == IF a < 0 THEN -a ELSE a

Sign(a) == IF a < 0 THEN -1 ELSE IF a > 0 THEN 1 ELSE 0

RECURSIVE Gcd(_, _)
Gcd(a, b) ==
    IF b = 0 THEN a ELSE CHOOSE g \in {Gcd(b, r) : r \in {a % b}} : TRUE

\* the fraction n/d in lowest terms with a positive denominator; x/0 as in JS
Frac(n, d) ==
    CHOOSE f \in
        { IF y = 0 THEN [n |-> Sign(x), d |-> 0]
          ELSE CHOOSE q \in { [n |-> (Sign(y) * x) \div g, d |-> Abs(y) \div g]
                              : g \in {Gcd(Abs(x), Abs(y))} } : TRUE
          : x \in {n}, y \in {d} } : TRUE

Num(a) == [n |-> a, d |-> 1]

NaN == [n |-> 0, d |-> 0]

IsFinite(a) == a.d # 0

Add(a, b) ==
    CHOOSE r \in
        { IF x.d # 0 /\ y.d # 0 THEN Frac(x.n * y.d + y.n * x.d, x.d * y.d)
          ELSE IF x = NaN \/ y = NaN THEN NaN
          ELSE IF x.d = 0 /\ y.d = 0 THEN (IF x.n = y.n THEN x ELSE NaN)
          ELSE IF x.d = 0 THEN x ELSE y
          : x \in {a}, y \in {b} } : TRUE

Neg(a) == CHOOSE r \in { [n |-> -x.n, d |-> x.d] : x \in {a} } : TRUE

Sub(a, b) == Add(a, Neg(b))

Mul(a, b) ==
    CHOOSE r \in
        { IF x.d # 0 /\ y.d # 0 THEN Frac(x.n * y.n, x.d * y.d)
          ELSE IF x = NaN \/ y = NaN \/ x.n = 0 \/ y.n = 0 THEN NaN
          ELSE [n |-> Sign(x.n) * Sign(y.n), d |-> 0]
          : x \in {a}, y \in {b} } : TRUE

Div(a, b) ==
    CHOOSE r \in
        { IF x.d # 0 /\ y.d # 0 THEN Frac(x.n * y.d, x.d * y.n)
          ELSE IF x = NaN \/ y = NaN THEN NaN
          ELSE IF x.d = 0 /\ y.d = 0 THEN NaN
          ELSE IF x.d = 0
               THEN [n |-> x.n * (IF y.n < 0 THEN -1 ELSE 1), d |-> 0]
          ELSE Num(0)
          : x \in {a}, y \in {b} } : TRUE

----------------------------------------------------------------------------
(* ChartDataStore: CryptoModal.jsx *)

Periods == {7, 30, 90}

\* Date of the newest sample of every series (days since the epoch).
Today == 100

\* data.prices of /coins/{id}/market_chart?days={d}: [timestamp, price] pairs,
\* ascending in time, covering the last d days.
Prices(id, d) ==
    LET base == IF id = "bitcoin" THEN 100 ELSE 10
    IN  CASE d = 7  -> << <<Today - 7, base>>, <<Today, base + 5>> >>
          [] d = 30 -> << <<Today - 30, base + 8>>, <<Today - 15, base + 2>>,
                          <<Today, base + 5>> >>
          [] OTHER  -> << <<Today - 90, base + 5>>, <<Today - 45, base + 9>>,
                          <<Today, base + 5>> >>

\* Bodies res.json() may resolve with: the series of the requested key, or an
\* error object without a prices field (rate limit answer).
Bodies(id, d) == { [prices |-> Prices(id, d)], [status |-> 429] }

\* data.prices.map(([timestamp, price]) => ({ date: new Date(timestamp), price }))
Points(prices) ==
    [i \in 1..Len(prices) |->
        [date |-> [time |-> prices[i][1]], price |-> prices[i][2]]]

\* The series the upstream holds for a key, as chart points.
SeriesOf(id, d) == Points(Prices(id, d))

\* viewBox and margins of renderChart
W == 800
H == 300
PadTop == 20
PadRight == 20
PadBottom == 40
PadLeft == 60
chartW == W - PadLeft - PadRight
chartH == H - PadTop - PadBottom

RECURSIVE MinOf(_)
MinOf(s) ==
    IF Len(s) = 1 THEN s[1]
    ELSE LET m == MinOf(Tail(s)) IN IF s[1] < m THEN s[1] ELSE m

RECURSIVE MaxOf(_)
MaxOf(s) ==
    IF Len(s) = 1 THEN s[1]
    ELSE LET m == MaxOf(Tail(s)) IN IF s[1] > m THEN s[1] ELSE m

prices(cd) == [i \in 1..Len(cd) |-> cd[i].price]
minP(cd) == MinOf(prices(cd))
maxP(cd) == MaxOf(prices(cd))

\* maxP - minP || 1
rangeP(cd) == IF maxP(cd) - minP(cd) = 0 THEN 1 ELSE maxP(cd) - minP(cd)

\* scaleX(i) = PAD.left + (i / (chartData.length - 1)) * chartW, i from 0
scaleX(cd, i) ==
    Add(Num(PadLeft), Mul(Div(Num(i), Num(Len(cd) - 1)), Num(chartW)))

\* Variant: the price axis is not inverted (higher price, larger y).
scaleYNotInverted(cd, p) ==
    Add(Num(PadTop),
        Mul(Div(Num(p - minP(cd)), Num(rangeP(cd))), Num(chartH)))

\* scaleY(p) = PAD.top + chartH - ((p - minP) / rangeP) * chartH
scaleY(cd, p) ==
    Sub(Num(PadTop + chartH),
        Mul(Div(Num(p - minP(cd)), Num(rangeP(cd))), Num(chartH)))

\* x <= y on finite numbers
Leq(a, b) == a.n * b.d <= b.n * a.d

\* Number.prototype.toFixed(1): the nearest tenth, ties away from zero; NaN
\* and Infinity print as themselves
toFixed1(a) ==
    CHOOSE r \in
        { IF x.d = 0 THEN x
          ELSE Frac(Sign(x.n) * ((20 * Abs(x.n) + x.d) \div (2 * x.d)), 10)
          : x \in {a} } : TRUE

\* Math.round of a non-negative fraction n/d: floor(n/d + 1/2)
round(n, d) == (2 * n + d) \div (2 * d)

\* Variant: the line is green only for a strictly positive change.
lineColorStrict(cd) ==
    IF cd[Len(cd)].price - cd[1].price > 0 THEN "#00ff88" ELSE "#ff4466"

\* priceChange >= 0 ? '#00ff88' : '#ff4466'
lineColor(cd) ==
    IF cd[Len(cd)].price - cd[1].price >= 0 THEN "#00ff88" ELSE "#ff4466"

\* number of horizontal grid lines
yLabels == 5

\* days === 7 ? 7 : days === 30 ? 6 : 5
xLabelCount(d) == IF d = 7 THEN 7 ELSE IF d = 30 THEN 6 ELSE 5

\* Math.round(i * (chartData.length - 1) / (xLabelCount - 1)), i from 0
xLabelIndex(cd, d, i) == round(i * (Len(cd) - 1), xLabelCount(d) - 1)

\* renderChart() returned null
NoFrame ==
    [linePath |-> <<>>, areaClose |-> <<>>, lineColor |-> "",
     yTicks |-> <<>>, xTicks |-> <<>>, rects |-> <<>>]

\* renderChart(): the coordinates it puts into the svg
renderChart(cd, d) ==
    IF Len(cd) = 0 THEN NoFrame
    ELSE
      [linePath |->
          [k \in 1..Len(cd) |->
              [x |-> toFixed1(scaleX(cd, k - 1)),
               y |-> toFixed1(scaleY(cd, cd[k].price))]],
       areaClose |->
          << [x |-> scaleX(cd, Len(cd) - 1), y |-> Num(H - PadBottom)],
             [x |-> Num(PadLeft), y |-> Num(H - PadBottom)] >>,
       lineColor |-> lineColor(cd),
       yTicks |->
          [k \in 1..yLabels |->
              [y |-> Add(Num(PadTop),
                         Mul(Num(k - 1), Div(Num(chartH), Num(yLabels - 1)))),
               price |-> Sub(Num(maxP(cd)),
                             Mul(Div(Num(k - 1), Num(yLabels - 1)),
                                 Num(rangeP(cd))))]],
       xTicks |->
          [k \in 1..xLabelCount(d) |->
              [idx |-> xLabelIndex(cd, d, k - 1),
               x |-> scaleX(cd, xLabelIndex(cd, d, k - 1))]],
       rects |->
          [k \in 1..Len(cd) |->
              [x |-> Sub(scaleX(cd, k - 1),
                         Div(Div(Num(chartW), Num(Len(cd))), Num(2))),
               width |-> Div(Num(chartW), Num(Len(cd)))]]]

\* hovered = null
NullHover == [date |-> [time |-> 0], price |-> 0, x |-> NaN, y |-> NaN]

\* { ...d, x: scaleX(i), y: scaleY(d.price) } for the i-th rect, i from 0
HoverOf(cd, i) ==
    [date |-> cd[i + 1].date, price |-> cd[i + 1].price,
     x |-> scaleX(cd, i), y |-> scaleY(cd, cd[i + 1].price)]

\* periodChange: null, or ((last - first) / first * 100).toFixed(2) as a
\* one-element sequence holding the value in hundredths
periodChange(cd) ==
    LET firstPrice == IF Len(cd) = 0 THEN 0 ELSE cd[1].price
        lastPrice  == IF Len(cd) = 0 THEN 0 ELSE cd[Len(cd)].price
    IN  IF firstPrice # 0 /\ lastPrice # 0
          THEN LET q == (lastPrice - firstPrice) * 10000
                   h == (2 * Abs(q) + Abs(firstPrice)) \div (2 * Abs(firstPrice))
               IN  << Sign(q) * Sign(firstPrice) * h >>
          ELSE <<>>

\* The modal is mounted.
ModalOpen == coin # NullCoin

\* {periodChange && <div className="modal-period-change">... ({days}d)</div>}
BadgeRendered == ModalOpen /\ periodChange(chartData) # <<>>

\* {loadingChart ? <div className="chart-loading"> : renderChart()}
ChartLoadingRendered == ModalOpen /\ loadingChart

\* renderChart() returns an <svg> (not null)
ChartRendered == ModalOpen /\ ~loadingChart /\ Len(chartData) # 0

\* What the chart container shows: the loading indicator, the svg returned by
\* renderChart(), or nothing (renderChart() returned null). The component has
\* no other branch.
ChartPanel ==
    IF ~ModalOpen THEN "none"
    ELSE IF loadingChart THEN "loading"
    ELSE IF Len(chartData) = 0 THEN "blank"
    ELSE "chart"

\* {hovered && <div className="hover-info">}
HoverInfoRendered == ModalOpen /\ hovered # NullHover

\* The svg of the committed render (NoFrame when none is drawn)
Rendered ==
    IF ModalOpen /\ ~loadingChart THEN renderChart(chartData, days)
    ELSE NoFrame

\* fetchChartData up to its first await: setLoadingChart(true), fetch(...) sent
\* for the coin id and days of the render that ran the effect
fetchChartData(id, d) ==
    /\ chartIssued < MaxChartFetches
    /\ loadingChart' = TRUE
    /\ chartIssued' = chartIssued + 1
    /\ chartFetches' = chartFetches \cup
          { [id |-> chartIssued + 1, coinId |-> id, days |-> d,
             phase |-> "fetch"] }

\* catch (err) { console.error } finally { setLoadingChart(false) }
ChartCatch(r) ==
    /\ chartFetches' = chartFetches \ {r}
    /\ loadingChart' = FALSE
    /\ UNCHANGED <<coin, chartData, days, hovered, chartIssued>>

\* await fetch(...) resolves (res.ok is not inspected)
ChartFetchResolves(r) ==
    /\ r \in chartFetches
    /\ r.phase = "fetch"
    /\ chartFetches' = (chartFetches \ {r}) \cup {[r EXCEPT !.phase = "json"]}
    /\ UNCHANGED <<coin, chartData, loadingChart, days, hovered, chartIssued>>
    /\ UNCHANGED appVars
    /\ frame' = Rendered'

\* await fetch(...) rejects
ChartFetchRejects(r) ==
    /\ r \in chartFetches
    /\ r.phase = "fetch"
    /\ ChartCatch(r)
    /\ UNCHANGED appVars
    /\ frame' = Rendered'

\* await res.json() resolves with body: data.prices.map throws without prices,
\* else setChartData(points); finally setLoadingChart(false)
ChartJsonResolves(r, body) ==
    /\ r \in chartFetches
    /\ r.phase = "json"
    /\ IF "prices" \in DOMAIN body
         THEN /\ chartData' = Points(body.prices)
              /\ loadingChart' = FALSE
              /\ chartFetches' = chartFetches \ {r}
              /\ UNCHANGED <<coin, days, hovered, chartIssued>>
         ELSE ChartCatch(r)
    /\ UNCHANGED appVars
    /\ frame' = Rendered'

\* await res.json() rejects
ChartJsonRejects(r) ==
    /\ r \in chartFetches
    /\ r.phase = "json"
    /\ ChartCatch(r)
    /\ UNCHANGED appVars
    /\ frame' = Rendered'

\* setSelected(c) with no modal mounted: CryptoModal mounts with its initial
\* state and its effect calls fetchChartData()
OpenModal(c) ==
    /\ ~ModalOpen
    /\ coin' = c
    /\ chartData' = <<>>
    /\ days' = 7
    /\ hovered' = NullHover
    /\ fetchChartData(c.id, 7)
    /\ UNCHANGED appVars
    /\ frame' = Rendered'

\* setSelected(c) from a card reached by keyboard while the modal is mounted:
\* the coin prop changes; the [coin.id, days] effect runs when the id differs
SwitchCoin(c) ==
    /\ ModalOpen
    /\ c # coin
    /\ coin' = c
    /\ IF c.id # coin.id
         THEN fetchChartData(c.id, days)
         ELSE UNCHANGED <<loadingChart, chartIssued, chartFetches>>
    /\ UNCHANGED <<chartData, days, hovered>>
    /\ UNCHANGED appVars
    /\ frame' = Rendered'

\* onClose: the modal unmounts and its state is dropped; calls still suspended
\* complete on the unmounted instance and change nothing
CloseChart ==
    /\ ModalOpen
    /\ coin' = NullCoin
    /\ chartData' = <<>>
    /\ loadingChart' = TRUE
    /\ days' = 7
    /\ hovered' = NullHover
    /\ chartFetches' = {}
    /\ UNCHANGED chartIssued
    /\ UNCHANGED appVars
    /\ frame' = Rendered'

\* period button onClick={() => setDays(d)}, then the [coin.id, days] effect
SetDays(d) ==
    /\ ModalOpen
    /\ d # days
    /\ days' = d
    /\ fetchChartData(coin.id, d)
    /\ UNCHANGED <<coin, chartData, hovered>>
    /\ UNCHANGED appVars
    /\ frame' = Rendered'

\* <rect onMouseEnter={() => setHovered({ ...d, x, y })}> of sample i
PointerEnter(i) ==
    /\ ChartRendered
    /\ i \in 0..(Len(chartData) - 1)
    /\ hovered' = HoverOf(chartData, i)
    /\ UNCHANGED <<coin, chartData, loadingChart, days, chartFetches,
                   chartIssued>>
    /\ UNCHANGED appVars
    /\ frame' = Rendered'

\* <svg onMouseLeave={() => setHovered(null)}>
PointerLeave ==
    /\ ChartRendered
    /\ hovered' = NullHover
    /\ UNCHANGED <<coin, chartData, loadingChart, days, chartFetches,
                   chartIssued>>
    /\ UNCHANGED appVars
    /\ frame' = Rendered'

----------------------------------------------------------------------------
(* Specifications *)

\* No modal is mounted.
ChartIdle ==
    /\ coin = NullCoin
    /\ chartData = <<>>
    /\ loadingChart = TRUE
    /\ days = 7
    /\ hovered = NullHover
    /\ chartFetches = {}
    /\ chartIssued = 0
    /\ frame = NoFrame

\* App after its first render and mount effects: fetchCryptos() is in flight,
\* the interval is scheduled, the filter effect has run on the empty list.
Init ==
    /\ cryptos = <<>>
    /\ filtered = <<>>
    /\ search = <<>>
    /\ selected = NullCoin
    /\ loading = TRUE
    /\ error = Null
    /\ mounted = TRUE
    /\ interval = TRUE
    /\ fetches = { [id |-> 1, src |-> "mount", phase |-> "fetch"] }
    /\ issued = 1
    /\ effectPending = FALSE
    /\ ChartIdle

Next ==
    \/ \E r \in fetches, ok \in BOOLEAN : FetchResolves(r, ok)
    \/ \E r \in fetches : FetchRejects(r)
    \/ \E r \in fetches, data \in Snapshots : JsonResolves(r, data)
    \/ \E r \in fetches : JsonRejects(r)
    \/ TimerTick
    \/ Retry
    \/ Unmount
    \/ \E t \in Terms : SetSearch(t)
    \/ FilterEffect
    \/ \E c \in Range(filtered) : SelectCoin(c)
    \/ CloseModal

Spec == Init /\ [][Next]_vars

\* A coin whose name and symbol share no letter, with an upper-case symbol.
Usdt == MkCoin("tether", <<"T", "e">>, <<"U", "S">>, 1, 3)

FilterCoins == { Btc1, Eth1, Usdt, Btc2 }

\* Instrument lists of up to MaxListLen coins, in any order.
FilterLists ==
    UNION { [1..n -> FilterCoins] : n \in 0..MaxListLen }

FilterTerms == { <<>>, <<"B">>, <<"e", "T">>, <<"e">>, <<"S">>, <<"x">> }

\* App right after a successful refresh was committed (setCryptos(data),
\* setFiltered(data)) with some text in the search bar; the filter effect is
\* scheduled.
InitFilter ==
    /\ cryptos \in FilterLists
    /\ filtered = cryptos
    /\ search \in FilterTerms
    /\ selected = NullCoin
    /\ loading = FALSE
    /\ error = Null
    /\ mounted = TRUE
    /\ interval = TRUE
    /\ fetches = {}
    /\ issued = 1
    /\ effectPending = TRUE
    /\ ChartIdle

NextFilter ==
    \/ FilterEffect
    \/ \E t \in FilterTerms : SetSearch(t)

SpecFilter == InitFilter /\ [][NextFilter]_vars

\* App right after a refresh failed: the error is shown, loading is over, the
\* list of an earlier success (if any) is held, and a refresh started before
\* the failure may still be in flight.
InitRecover ==
    /\ cryptos \in {<<>>} \cup Snapshots
    /\ search \in Terms
    /\ filtered = filter(cryptos, search)
    /\ selected = NullCoin
    /\ loading = FALSE
    /\ error = ErrorMessage
    /\ mounted = TRUE
    /\ interval = TRUE
    /\ \/ fetches = {} /\ issued = 1
       \/ fetches = { [id |-> 2, src |-> "timer", phase |-> "fetch"] }
          /\ issued = 2
    /\ effectPending = FALSE
    /\ ChartIdle

\* From there on every refresh succeeds and App stays mounted.
NextRecover ==
    \/ TimerTick
    \/ Retry
    \/ \E r \in fetches : FetchResolves(r, TRUE)
    \/ \E r \in fetches, data \in Snapshots : JsonResolves(r, data)
    \/ FilterEffect

\* The interval keeps firing, requests get their answer, React runs effects.
SpecRecover ==
    /\ InitRecover
    /\ [][NextRecover]_vars
    /\ WF_vars(TimerTick)
    /\ WF_vars(\E r \in fetches : FetchResolves(r, TRUE))
    /\ WF_vars(\E r \in fetches, data \in Snapshots : JsonResolves(r, data))
    /\ WF_vars(FilterEffect)

\* Coins the list offers while the modal is studied.
ListedCoins == { Btc1, Eth1, Btc2 }

\* App is Ready with a loaded list; no modal is mounted yet.
InitChart ==
    /\ cryptos = <<Btc1, Eth1>>
    /\ filtered = <<Btc1, Eth1>>
    /\ search = <<>>
    /\ selected = NullCoin
    /\ loading = FALSE
    /\ error = Null
    /\ mounted = TRUE
    /\ interval = TRUE
    /\ fetches = {}
    /\ issued = 1
    /\ effectPending = FALSE
    /\ ChartIdle

NextChart ==
    \/ \E c \in ListedCoins : OpenModal(c)
    \/ \E d \in Periods : SetDays(d)
    \/ \E c \in ListedCoins : SwitchCoin(c)
    \/ CloseChart
    \/ \E r \in chartFetches : ChartFetchResolves(r)
    \/ \E r \in chartFetches : ChartFetchRejects(r)
    \/ \E r \in chartFetches : \E body \in Bodies(r.coinId, r.days) :
          ChartJsonResolves(r, body)
    \/ \E r \in chartFetches : ChartJsonRejects(r)
    \/ \E i \in 0..2 : PointerEnter(i)
    \/ PointerLeave

SpecChart == InitChart /\ [][NextChart]_vars

\* Prices the upstream may report for a sample.
GeomPrices == { 10, 17, 19 }

\* data.prices for a list of prices: one [timestamp, price] pair per day,
\* ascending, the newest dated Today
Stamp(s) == [k \in 1..Len(s) |-> <<Today - (Len(s) - k), s[k]>>]

\* A 7-day series of 7 identical prices.
Flat7 == [k \in 1..7 |-> 17]

\* Bodies res.json() may resolve with: every series of up to MaxSamples
\* samples (the empty one included), and the flat 7-day series.
GeomBodies ==
    UNION { { [prices |-> Stamp(s)] : s \in [1..n -> GeomPrices] }
            : n \in 0..MaxSamples }
      \cup { [prices |-> Stamp(Flat7)] }

\* The modal was opened on bitcoin; its first request has been answered and
\* the body is being read. The user then moves the pointer over the chart.
InitGeom ==
    /\ cryptos = <<Btc1, Eth1>>
    /\ filtered = <<Btc1, Eth1>>
    /\ search = <<>>
    /\ selected = Btc1
    /\ loading = FALSE
    /\ error = Null
    /\ mounted = TRUE
    /\ interval = TRUE
    /\ fetches = {}
    /\ issued = 1
    /\ effectPending = FALSE
    /\ coin = Btc1
    /\ chartData = <<>>
    /\ loadingChart = TRUE
    /\ days = 7
    /\ hovered = NullHover
    /\ chartFetches =
          { [id |-> 1, coinId |-> "bitcoin", days |-> 7, phase |-> "json"] }
    /\ chartIssued = 1
    /\ frame = NoFrame

NextGeom ==
    \/ \E r \in chartFetches : \E body \in GeomBodies :
          ChartJsonResolves(r, body)
    \/ \E i \in 0..(MaxSamples - 1) : PointerEnter(i)
    \/ PointerLeave

SpecGeom == InitGeom /\ [][NextGeom]_vars

----------------------------------------------------------------------------
(* Properties of the instrument list store (checked under Spec) *)

\* C1: a refresh that completes with a failure (transport error, non-success
\* status, unreadable body) leaves the instrument list exactly as it was.
C1_FailedRefreshKeepsList ==
    [][\A r \in fetches : Catch(r) => cryptos' = cryptos]_vars

\* C1 witness: a failure has been reported while a loaded list is held.
C1_Witness ==
    /\ mounted
    /\ error = ErrorMessage
    /\ cryptos # <<>>
    /\ fetches = {}

\* C3: at every moment at most one instrument-list fetch is outstanding.
C3_AtMostOneOutstanding == Cardinality(fetches) <= 1

\* C4: when a refresh completes successfully, the state right after it has the
\* list equal to the response's payload and the error flag cleared.
C4_SuccessReplacesListAndClearsError ==
    [][\A r \in fetches : \A data \in Snapshots :
          (mounted /\ JsonResolves(r, data))
              => (cryptos' = data /\ error' = Null)]_vars

\* C5 (as claimed): after a refresh fails while a previously loaded list
\* exists, the list view is rendered together with the error message.
C5_ListVisibleWhenFailed ==
    [][\A r \in fetches :
          (mounted /\ cryptos # <<>> /\ Catch(r))
              => (ListRendered' /\ ErrorRendered')]_vars

\* C5 (amended): a failed refresh keeps the loaded list in the store, and the
\* view then renders the error message and not the list view.
C5_ListKeptButHiddenWhenFailed ==
    [][\A r \in fetches :
          (mounted /\ cryptos # <<>> /\ Catch(r))
              => (cryptos' = cryptos /\ ErrorRendered' /\ ~ListRendered')]_vars

\* C5 witness: Failed state holding a list, error shown, list view hidden.
C5_Witness ==
    /\ mounted
    /\ ~loading
    /\ cryptos # <<>>
    /\ ErrorRendered
    /\ ~ListRendered
    /\ ~LoadingRendered

\* C6: after teardown no timer-triggered refresh is initiated.
C6_NoTimerRefreshAfterTeardown ==
    [][~mounted =>
          \A r \in fetches' :
              r.src = "timer" => \E q \in fetches : q.id = r.id]_vars

\* C6 witness: torn down with refreshes still to come within the bound and a
\* timer-triggered refresh made before the teardown.
C6_Witness ==
    /\ ~mounted
    /\ issued > 1
    /\ issued < MaxFetches

\* C7: once loading is false it stays false; initiating a refresh changes
\* neither the list nor loading; the list changes only when a refresh that was
\* reading its body completes.
C7_LoadingOnlyBeforeFirstCompletion ==
    [][/\ ~loading => ~loading'
       /\ issued' # issued => (cryptos' = cryptos /\ loading' = loading)
       /\ cryptos' # cryptos =>
             \E r \in fetches : r.phase = "json" /\ r \notin fetches']_vars

\* C7 witness: a later refresh is in flight, the loaded list is in place and
\* the view is not in Loading.
C7_Witness ==
    /\ mounted
    /\ ~loading
    /\ cryptos # <<>>
    /\ \E r \in fetches : r.src \in {"timer", "retry"}

\* C9: the open selection's detail fields equal those of the instrument with
\* the same id in the latest snapshot.
C9_SelectionFollowsLatestSnapshot ==
    ModalRendered =>
        \A i \in 1..Len(cryptos) :
            cryptos[i].id = selected.id => cryptos[i] = selected

----------------------------------------------------------------------------
(* Properties of the chart store and hover state (checked under SpecChart) *)

\* C2: the resolution of a request for a superseded key does not overwrite the
\* series held for the current key.
C2_LateResolutionIgnored ==
    [][\A r \in chartFetches : \A body \in Bodies(r.coinId, r.days) :
          (/\ ModalOpen
           /\ chartData = SeriesOf(coin.id, days)
           /\ (r.coinId # coin.id \/ r.days # days)
           /\ ChartJsonResolves(r, body))
              => chartData' = chartData]_vars

\* C8: when the chart key (coin id, period) changes, the old key's series is
\* discarded: right after the change neither the period-change badge nor the
\* chart presents data under the new key.
C8_OldSeriesNotPresented ==
    [][(/\ ModalOpen
        /\ ModalOpen'
        /\ (days' # days \/ coin'.id # coin.id))
          => (~BadgeRendered' /\ ~ChartRendered')]_vars

\* C10: the hover state is Idle or refers to a sample of the stored series.
C10_HoverRefersToCurrentSeries ==
    HoverInfoRendered =>
        \E i \in 0..(Len(chartData) - 1) : hovered = HoverOf(chartData, i)

----------------------------------------------------------------------------
(* Properties of the search filter (C11 under SpecFilter, C12 under Spec) *)

\* s contains t as a contiguous run of characters
Contains(s, t) ==
    \E a \in 1..(Len(s) + 1) : \E b \in 0..Len(s) : SubSeq(s, a, b) = t

\* the lowercased name or the lowercased symbol contains the lowercased text
Wanted(c, text) ==
    \/ Contains(toLowerCase(c.name), toLowerCase(text))
    \/ Contains(toLowerCase(c.symbol), toLowerCase(text))

\* view holds exactly the wanted entries of list, in the order of list
IsOrderedSelection(view, list, text) ==
    LET Idx == { i \in 1..Len(list) : Wanted(list[i], text) }
    IN  /\ Len(view) = Cardinality(Idx)
        /\ \A i \in Idx : view[Cardinality({ j \in Idx : j <= i })] = list[i]

\* C11: once the filter effect has run, the filtered view is exactly the
\* instruments whose lowercased name or symbol contains the lowercased search
\* term, in list order; the empty term gives the whole list; filtering the view
\* again with the same term gives the same view.
C11_FilterIsOrderedSelection ==
    ~effectPending =>
        /\ IsOrderedSelection(filtered, cryptos, search)
        /\ (search = <<>> => filtered = cryptos)
        /\ filter(filtered, search) = filtered

\* C11 witness: a mixed-case term has kept some coins and dropped others.
C11_Witness ==
    /\ ~effectPending
    /\ search = <<"e", "T">>
    /\ Len(filtered) >= 1
    /\ Len(filtered) < Len(cryptos)

\* C12: right after a successful refresh is committed, the displayed list is
\* filter(instrument list, search term).
C12_ViewIsFilterOfInputs ==
    [][\A r \in fetches : \A data \in Snapshots :
          (mounted /\ JsonResolves(r, data))
              => filtered' = filter(cryptos', search')]_vars

----------------------------------------------------------------------------
(* Properties of chart failures (checked under SpecChart) *)

\* C13: after a failed chart fetch the chart panel is distinguishable from
\* Loading and from Ready: it shows neither the loading indicator nor a chart.
C13_FailedChartFetchIsDistinguishable ==
    [][\A r \in chartFetches :
          (ModalOpen /\ ChartCatch(r))
              => ChartPanel' \notin {"loading", "chart"}]_vars

----------------------------------------------------------------------------
(* Recovery from an instrument-list error (checked under SpecRecover) *)

\* Ready: the list view is rendered with the filtered list of the last
\* response and nothing is pending.
Ready ==
    /\ ListRendered
    /\ fetches = {}
    /\ ~effectPending
    /\ cryptos \in Snapshots
    /\ filtered = filter(cryptos, search)

\* C14: from every state with the error flag set, when a retry or timer tick
\* issues a fetch that succeeds and no fetch fails afterwards, the store
\* eventually is Ready with the error cleared and the new list shown.
C14_ErrorIsRecoverable == (mounted /\ error # Null) ~> (Ready /\ error = Null)

\* C14 witness: Ready again after the error, by a refresh issued after it.
C14_Witness ==
    /\ Ready
    /\ error = Null
    /\ \E n \in 2..MaxFetches : issued = n

----------------------------------------------------------------------------
(* Chart geometry (checked under SpecGeom) *)

\* y of the bottom and of the top edge of the plot area
PlotBottom == Num(PadTop + chartH)
PlotTop == Num(PadTop)

\* every price of the series is the same
IsFlat(cd) == maxP(cd) = minP(cd)

\* C15 (as claimed): for every drawn series of N >= 2 samples, the flat ones
\* included, scaleY(minP) is the bottom of the plot area and scaleY(maxP) is
\* its top.
C15_MinAtBottomMaxAtTop ==
    (ChartRendered /\ Len(chartData) >= 2)
        => /\ scaleY(chartData, minP(chartData)) = PlotBottom
           /\ scaleY(chartData, maxP(chartData)) = PlotTop

\* C15 (amended): for every drawn series of N >= 2 samples, scaleY(minP) is
\* the bottom of the plot area; scaleY(maxP) is the top when the prices are
\* not all equal, and the bottom when they are (range replaced by 1). The
\* line passes through these ordinates at the lowest and highest samples.
C15_MinAtBottomMaxAtTopUnlessFlat ==
    (ChartRendered /\ Len(chartData) >= 2)
        => /\ scaleY(chartData, minP(chartData)) = PlotBottom
           /\ scaleY(chartData, maxP(chartData)) =
                 (IF IsFlat(chartData) THEN PlotBottom ELSE PlotTop)
           /\ \A k \in 1..Len(chartData) :
                 /\ chartData[k].price = minP(chartData)
                       => frame.linePath[k].y = PlotBottom
                 /\ (chartData[k].price = maxP(chartData)
                        /\ ~IsFlat(chartData))
                       => frame.linePath[k].y = PlotTop

\* C15 witness: a drawn series with three different prices, the pointer over
\* its highest sample, whose marker sits on the top edge.
C15_Witness ==
    /\ ChartRendered
    /\ Len(chartData) >= 2
    /\ ~IsFlat(chartData)
    /\ \E k \in 1..Len(chartData) :
          /\ chartData[k].price # minP(chartData)
          /\ chartData[k].price # maxP(chartData)
    /\ frame = renderChart(chartData, days)
    /\ hovered # NullHover
    /\ hovered.price = maxP(chartData)
    /\ hovered.y = PlotTop

\* every coordinate the svg is drawn with
FrameCoordinates(f) ==
    { f.linePath[k].x : k \in DOMAIN f.linePath }
      \cup { f.linePath[k].y : k \in DOMAIN f.linePath }
      \cup { f.areaClose[k].x : k \in DOMAIN f.areaClose }
      \cup { f.areaClose[k].y : k \in DOMAIN f.areaClose }
      \cup { f.yTicks[k].y : k \in DOMAIN f.yTicks }
      \cup { f.xTicks[k].x : k \in DOMAIN f.xTicks }

\* C16: for every drawn constant-price series of N >= 1 samples, the
\* single-sample series included, every coordinate of the geometry (line
\* path, area, x-tick and y-tick positions, scaleX and scaleY of every
\* sample) is a finite number, and for N = 1 the single point is at x = left.
C16_FlatGeometryIsFinite ==
    (ChartRendered /\ IsFlat(chartData))
        => /\ \A c \in FrameCoordinates(frame) : IsFinite(c)
           /\ \A i \in 0..(Len(chartData) - 1) :
                 /\ IsFinite(scaleX(chartData, i))
                 /\ IsFinite(scaleY(chartData, chartData[i + 1].price))
           /\ Len(chartData) = 1 => frame.linePath[1].x = Num(PadLeft)

\* right edge of a hit-region
RectEnd(r) == Add(r.x, r.width)

\* x of the left and of the right edge of the plot area
PlotLeft == Num(PadLeft)
PlotRight == Num(PadLeft + chartW)

\* C17: for every drawn series of N >= 2 samples, the N hover hit-regions
\* have equal width, do not overlap, are each centred on scaleX(i), do not
\* extend outside the plot, and leave no pointer x of the plot width
\* uncovered.
C17_HitRegionsPartitionPlot ==
    (ChartRendered /\ Len(chartData) >= 2)
        => LET R == frame.rects
               N == Len(chartData)
           IN  /\ \A k \in 1..N : R[k].width = R[1].width
               /\ \A k \in 1..N :
                     Add(R[k].x, Div(R[k].width, Num(2)))
                         = scaleX(chartData, k - 1)
               /\ \A j, k \in 1..N : j < k => Leq(RectEnd(R[j]), R[k].x)
               /\ \A k \in 1..N :
                     /\ Leq(PlotLeft, R[k].x)
                     /\ Leq(RectEnd(R[k]), PlotRight)
               /\ Leq(R[1].x, PlotLeft)
               /\ Leq(PlotRight, RectEnd(R[N]))
               /\ \A k \in 1..(N - 1) : Leq(R[k + 1].x, RectEnd(R[k]))

\* the colours of the "up" and of the "down" direction
UpColor == "#00ff88"
DownColor == "#ff4466"

\* C18: the drawn chart has the "up" colour whenever lastPrice - firstPrice
\* >= 0 and the "down" colour otherwise; a series whose first and last prices
\* are equal (such as 7 identical prices) is "up".
C18_DirectionUpUnlessFalling ==
    ChartRendered
        => LET firstPrice == chartData[1].price
               lastPrice  == chartData[Len(chartData)].price
           IN  /\ lastPrice - firstPrice >= 0 => frame.lineColor = UpColor
               /\ lastPrice - firstPrice < 0 => frame.lineColor = DownColor
               /\ lastPrice = firstPrice => frame.lineColor = UpColor

\* C18 witness: the flat 7-day series is drawn, in the "up" colour.
C18_Witness ==
    /\ ChartRendered
    /\ chartData = Points(Stamp(Flat7))
    /\ Len(chartData) = 7
    /\ frame.lineColor = UpColor

====
